---- MODULE Spec2Model ----
(***************************************************************************)
(* Im2LatexDataset (dataset/dataset.py): images grouped into buckets by    *)
(* exact (width, height), a batch plan (self.pairs) rebuilt by __iter__,   *)
(* a cursor (self.i) advanced by __next__, and reconfiguration by update.  *)
(*                                                                         *)
(* A sample is the tuple (eqs[indices[i]], im) of line 98, written         *)
(* <<target line, image>>.  The dict self.data is a sequence of records    *)
(* [k, v] in insertion order, which is the order `for k in self.data`      *)
(* visits.  __next__ hands self.pairs[self.i-1] to prepare_data; call.ret  *)
(* is that batch and out is what prepare_data made of it.                  *)
(*                                                                         *)
(* Spec is the constructed dataset under iter, next and update; SpecShared *)
(* two iterator handles; SpecBuild the constructor itself, file by file,   *)
(* with a misnamed file and a KeyboardInterrupt; SpecLoad files that fail  *)
(* to decode and targets of several lengths; SpecOptions update with every *)
(* keyword.                                                                *)
(***************************************************************************)
EXTENDS Integers, Sequences, FiniteSets, TLC

\* ---- bounds ------------------------------------------------------------
NumImages == 3      \* number of *.png files the glob finds
MaxBatch  == 2      \* batch sizes passed in are -1..MaxBatch
MaxKwargs == 2      \* an update call passes at most this many option keys
MaxTokens == 2      \* the tokenizer makes at most this many tokens of a line

Images     == 1..NumImages
\* the (width, height) pairs imagesize.get reports for the files: a header
\* with width 0, a tall image and a wide image
Keys       == {<<0, 1>>, <<1, 2>>, <<2, 1>>}
\* the values passed as max_dimensions
Caps       == {<<1, 2>>, <<2, 1>>, <<2, 2>>}
BatchSizes == (0 - 1)..MaxBatch
Handles    == {"it1", "it2"}
OptionKeys == {"batchsize", "shuffle", "keep_smaller_batches", "max_dimensions"}

VARIABLES
  imsize,                \* the files: image -> (width, height) of imagesize.get
  stems,                 \* the files: image -> integer stem of its file name
  imread,                \* the files: image -> what cv2.imread makes of it
  ntok,                  \* the tokenizer: line of eqs -> number of tokens of its text
  build,                 \* __init__: how far its scan is and how it ended
  pad,                   \* self.pad
  test,                  \* self.test
  transform,             \* self.transform
  data,                  \* self.data
  batchsize,             \* self.batchsize
  shuffle,               \* self.shuffle
  keep_smaller_batches,  \* self.keep_smaller_batches
  max_dimensions,        \* self.max_dimensions
  size,                  \* self.size
  i,                     \* self.i
  pairs,                 \* self.pairs
  call,                  \* the last call: operation, caller, exception, batch loaded
  delivered,             \* batches returned by __next__ since the last __iter__
  planned,               \* the last __iter__ or update ran to completion
  out,                   \* what prepare_data returned to the last __next__
  got                    \* per iterator handle: batches it received since its own iter(),
                         \* counted up to NumImages + 1 (no plan holds that many);
                         \* -1 while the handle has not been obtained by iter()

\* what is on disk, and the tokenizer file: no operation writes them
disk == <<imsize, stems, imread, ntok>>

vars == <<disk, build, data, batchsize, shuffle, keep_smaller_batches, max_dimensions,
          pad, test, transform, size, i, pairs, call, delivered, planned, out, got>>

\* ---- helpers -----------------------------------------------------------
Range(s) == {s[j] : j \in 1..Len(s)}

Min(a, b) == IF a < b THEN a ELSE b

\* self.indices: the integer stem of each file name (0.png, 1.png, ...)
indices == [im \in Images |-> im - 1]

\* the lines of the equations file, one per image
Lines == 0..(NumImages - 1)

\* eqs = open(equations).read().split('\n') for a file whose last line ends
\* with a newline: the lines, then the empty string after the last newline.
\* A line stands for its text, the empty string for position NumImages
eqs == [n \in 0..NumImages |-> n]

\* the file-name stems tried for one misnamed file: -1.png, a stem one
\* past the last line, a stem beyond the list eqs, and the stems of its lines
Stems == (0 - 1)..(NumImages + 1)

\* eqs[n] of line 98: a negative n counts from the end of the list, and an
\* n outside -len..len-1 raises IndexError
GetItem(list, n) ==
  LET len == Cardinality(DOMAIN list)
  IN IF n >= len \/ n < 0 - len THEN [raised |-> "IndexError", value |-> 0]
     ELSE [raised |-> "none", value |-> list[IF n < 0 THEN n + len ELSE n]]

\* self.data[key].append(x) on a defaultdict(list)
DictAppend(d, key, x) ==
  IF \E j \in 1..Len(d) : d[j].k = key
  THEN [j \in 1..Len(d) |-> IF d[j].k = key
                            THEN [k |-> key, v |-> Append(d[j].v, x)]
                            ELSE d[j]]
  ELSE Append(d, [k |-> key, v |-> <<x>>])

\* the test of line 97
Fits(key, md) == key[1] <= md[1] /\ key[2] <= md[2]

\* lines 96-98 for the image im with the stem st: what the lookup raises, and
\* self.data after it
ScanOne(d, sz, md, im, st) ==
  IF Fits(sz[im], md)
  THEN [raised |-> GetItem(eqs, st).raised,
        data   |-> IF GetItem(eqs, st).raised = "none"
                   THEN DictAppend(d, sz[im], <<GetItem(eqs, st).value, im>>)
                   ELSE d]
  ELSE [raised |-> "none", data |-> d]

\* the scan loop of __init__ over the first n images, under the cap md, for
\* files named after their lines
RECURSIVE Scan(_, _, _)
Scan(sz, md, n) ==
  IF n = 0 THEN <<>>
  ELSE ScanOne(Scan(sz, md, n - 1), sz, md, n, indices[n]).data

\* Python's floor division, divmod(n, b)[0], for n >= 0 and b # 0
FloorDiv(n, b) ==
  IF b > 0 THEN n \div b ELSE 0 - ((n + (0 - b) - 1) \div (0 - b))

\* the sum _get_size accumulates over the buckets
RECURSIVE SumDiv(_, _)
SumDiv(d, bs) ==
  IF d = <<>> THEN 0 ELSE FloorDiv(Len(Head(d).v), bs) + SumDiv(Tail(d), bs)

\* _get_size: self.size = 0, then divmod raises ZeroDivisionError at the first
\* bucket when batchsize = 0
_get_size(d, bs) ==
  IF d # <<>> /\ bs = 0
  THEN [raised |-> "ZeroDivisionError", size |-> 0]
  ELSE [raised |-> "none", size |-> SumDiv(d, bs)]

\* torch.arange(n) and torch.randperm(n), as index sequences 1..n
Arange(n) == [j \in 1..n |-> j]

Randperm(n) == Permutations(1..n)

\* range(0, n, bs) for bs # 0, as 1-based start positions
Starts(n, bs) == IF bs > 0 THEN {s \in 1..n : (s - 1) % bs = 0} ELSE {}

\* info[p[i:i+batchsize]]: a one-element index may collapse the result to
\* the single row (ndim 1); otherwise the rows picked, in order (ndim 2)
FancyIndex(info, p, s, bs) ==
  LET e == Min(s + bs - 1, Len(p))
  IN IF e = s THEN [ndim |-> 1, rows |-> info[p[s]]]
     ELSE [ndim |-> 2, rows |-> [j \in 1..(e - s + 1) |-> info[p[s + j - 1]]]]

\* if len(batch.shape) == 1: batch = batch[None, :]
Expand(b) == IF b.ndim = 1 THEN [ndim |-> 2, rows |-> <<b.rows>>] ELSE b

\* Chunks without the test of line 120: the short final chunk is always kept
RECURSIVE ChunksKeepAll(_, _, _, _, _)
ChunksKeepAll(info, p, s, bs, keep) ==
  IF s \notin Starts(Len(info), bs) THEN <<>>
  ELSE <<Expand(FancyIndex(info, p, s, bs)).rows>> \o ChunksKeepAll(info, p, s + bs, bs, keep)

\* the batches one bucket contributes under the permutation p (lines 116-122)
RECURSIVE Chunks(_, _, _, _, _)
Chunks(info, p, s, bs, keep) ==
  IF s \notin Starts(Len(info), bs) THEN <<>>
  ELSE LET batch == Expand(FancyIndex(info, p, s, bs))
           rest  == Chunks(info, p, s + bs, bs, keep)
       IN IF Len(batch.rows) < bs /\ ~keep THEN rest
          ELSE <<batch.rows>> \o rest

BucketPlans(info, bs, shuf, keep) ==
  {Chunks(info, p, 1, bs, keep) :
     p \in IF shuf THEN Randperm(Len(info)) ELSE {Arange(Len(info))}}

\* the rows of all buckets, in bucket order
RECURSIVE AllRows(_)
AllRows(d) == IF d = <<>> THEN <<>> ELSE Head(d).v \o AllRows(Tail(d))

\* PairLists chunking the rows of all buckets as one list
PairListsMixed(d, bs, shuf, keep) ==
  IF d = <<>> THEN {<<>>} ELSE BucketPlans(AllRows(d), bs, shuf, keep)

\* the lists self.pairs can hold after the loop over the buckets
RECURSIVE PairLists(_, _, _, _)
PairLists(d, bs, shuf, keep) ==
  IF d = <<>> THEN {<<>>}
  ELSE {a \o b : a \in BucketPlans(Head(d).v, bs, shuf, keep),
                 b \in PairLists(Tail(d), bs, shuf, keep)}

\* np.random.permutation over the list of batches
Permutation(l) == {[j \in 1..Len(l) |-> l[p[j]]] : p \in Randperm(Len(l))}

\* Plans with the shuffle flag read as always set
PlansShuffled(d, bs, shuf, keep) ==
  UNION {Permutation(l) : l \in PairLists(d, bs, TRUE, keep)}

\* the values self.pairs can have when __iter__ returns
Plans(d, bs, shuf, keep) ==
  IF shuf THEN UNION {Permutation(l) : l \in PairLists(d, bs, shuf, keep)}
  ELSE PairLists(d, bs, shuf, keep)

\* range(0, len(info), 0) raises ValueError at the first bucket
IterRaises(d, bs) == d # <<>> /\ bs = 0

\* Filter without the upper bound on the width
FilterHeightOnly(d, md) ==
  SelectSeq(d, LAMBDA b : 0 < b.k[1] /\ 0 < b.k[2] /\ b.k[2] <= md[2])

\* the max_dimensions filter of update
Filter(d, md) ==
  SelectSeq(d, LAMBDA b : 0 < b.k[1] /\ b.k[1] <= md[1] /\ 0 < b.k[2] /\ b.k[2] <= md[2])

\* __iter__ without line 110: the cursor stays where it was
ResetCursorKept(c) == c

\* self.i = 0 (line 110), overwriting the cursor c
ResetCursor(c) == 0

\* line 131 with > for >=
AtEndStrict(c, n) == c > n

\* if self.i >= self.size (line 131)
AtEnd(c, n) == c >= n

\* __iter__ without line 127: self.size stays what it was
PlanSizeKept(old, p) == old

\* self.size = len(self.pairs) (line 127), overwriting the value `old`
PlanSize(old, p) == Len(p)

\* __iter__ returns self: every handle is the dataset object itself
Cursor(h) == i
Plan(h)   == pairs

\* the iterator state a call finds: Exhausted once the cursor has reached
\* self.size, Fresh before the first batch of a pass, Active in between
IterState == IF i >= size THEN "Exhausted" ELSE IF i = 0 THEN "Fresh" ELSE "Active"

\* the record of a call; `from` is kept for iter() only
Called(op, by, raised, ret) ==
  [op |-> op, by |-> by, raised |-> raised, ret |-> ret,
   from |-> IF op = "iter" THEN IterState ELSE "-"]

\* ---- prepare_data ------------------------------------------------------
pad_token_id == 0
bos_token_id == 1
eos_token_id == 2

\* what cv2.imread makes of a file: None (missing or corrupt), an array of
\* the size its header gave at the scan, or an array of another size (the
\* file was replaced after the scan)
Reads == {"None", "same", "other"}

\* self.transform = test_transform if self.test else train_transform (line 111)
Transform(t) == IF t THEN "test_transform" ELSE "train_transform"

\* the (width, height) of the tensor the transform makes of image im: both
\* transforms keep the size of the decoded array
Shape(sz, rd, im) ==
  IF rd[im] = "same" THEN sz[im] ELSE <<sz[im][1] + 1, sz[im][2]>>

\* the loop of lines 148-154 over ims from position j: an image imread
\* returns None for is reported and left out (continue)
RECURSIVE Decoded(_, _, _)
Decoded(ims, rd, j) ==
  IF j > Len(ims) THEN <<>>
  ELSE IF rd[ims[j]] = "None" THEN Decoded(ims, rd, j + 1)
  ELSE <<ims[j]>> \o Decoded(ims, rd, j + 1)

\* the tokenizer's input_ids for a line: nt[line] ids of the vocabulary, none
\* for the empty string; ids below 3 are the special tokens
Tokenize(nt, line) ==
  IF line \in DOMAIN nt THEN [k \in 1..nt[line] |-> 3 + line] ELSE <<>>

\* the tokenizer's attention_mask for a line: a 1 per token
AttentionMask(nt, line) == [k \in 1..Len(Tokenize(nt, line)) |-> 1]

RECURSIVE MaxLen(_)
MaxLen(rows) ==
  IF rows = <<>> THEN 0
  ELSE IF Len(Head(rows)) > MaxLen(Tail(rows)) THEN Len(Head(rows)) ELSE MaxLen(Tail(rows))

\* pad_sequence filling every row up to a fixed width instead
PadSequenceFixed(rows, value) ==
  [j \in 1..Len(rows) |->
     rows[j] \o [k \in 1..((MaxTokens + 3) - Len(rows[j])) |-> value]]

\* pad_sequence(rows, batch_first=True, padding_value=value)
PadSequence(rows, value) ==
  [j \in 1..Len(rows) |->
     rows[j] \o [k \in 1..(MaxLen(rows) - Len(rows[j])) |-> value]]

\* lines 155-158: the two fields of tok, each sequence between its markers
\* and padded with pad_token_id
Tok(nt, lines) ==
  [input_ids |->
     PadSequence([j \in 1..Len(lines) |->
                    <<bos_token_id>> \o Tokenize(nt, lines[j]) \o <<eos_token_id>>],
                 pad_token_id),
   attention_mask |->
     PadSequence([j \in 1..Len(lines) |->
                    <<1>> \o AttentionMask(nt, lines[j]) \o <<1>>],
                 pad_token_id)]

\* torch.cat(images) (line 160): RuntimeError for an empty list and for
\* tensors of different sizes
TorchCat(sz, rd, images) ==
  IF images = <<>> \/ \E a, b \in Range(images) : Shape(sz, rd, a) # Shape(sz, rd, b)
  THEN "RuntimeError" ELSE "none"

\* an except clause that catches nothing
CaughtNever(exc) == FALSE

\* except RuntimeError (line 161)
Caught(exc) == exc = "RuntimeError"

\* what a __next__ that loaded nothing leaves behind
NoTok == [input_ids |-> <<>>, attention_mask |-> <<>>]

NoOutput == [kind |-> "-", tok |-> NoTok, images |-> <<>>, shape |-> <<>>, via |-> "-"]

\* prepare_data(batch): kind is "tensors" for (tok, images), "None" for
\* (None, None), or the exception that leaves prepare_data; images are the
\* rows of the image tensor, each written as the file it was read from
prepare_data(batch, sz, rd, nt, tr, pd, md) ==
  LET lines  == [j \in 1..Len(batch) |-> batch[j][1]]
      ims    == [j \in 1..Len(batch) |-> batch[j][2]]
      images == Decoded(ims, rd, 1)
      exc    == TorchCat(sz, rd, images)
  IN IF exc # "none"
     THEN IF Caught(exc)
          THEN [NoOutput EXCEPT !.kind = "None"]
          ELSE [NoOutput EXCEPT !.kind = exc]
     ELSE [kind   |-> "tensors",
           tok    |-> Tok(nt, lines),
           images |-> images,
           shape  |-> IF pd THEN md ELSE Shape(sz, rd, images[1]),
           via    |-> tr]

\* ---- initial state: a constructed dataset -------------------------------
\* __init__ returns only when _get_size did not raise; it ends with iter(self)
\* the state __init__ leaves for the arguments and files chosen, the files
\* being named after their lines and the scan undisturbed
Constructed ==
  /\ stems = indices
  /\ build = [status |-> "done", pos |-> NumImages, aborted |-> FALSE]
  /\ data = Scan(imsize, max_dimensions, NumImages)
  /\ _get_size(data, batchsize).raised = "none"
  /\ i = 0
  /\ transform = Transform(test)
  /\ pairs \in Plans(data, batchsize, shuffle, keep_smaller_batches)
  /\ size = PlanSize(_get_size(data, batchsize).size, pairs)
  /\ call = [op |-> "init", by |-> "init", raised |-> "none", ret |-> <<>>, from |-> "-"]
  /\ delivered = <<>>
  /\ planned = TRUE
  /\ out = NoOutput
  /\ got = [h \in Handles |-> 0 - 1]

\* every file decodes to the size of its header, every line has one token,
\* pad and test are left at False
Init ==
  /\ imsize \in [Images -> Keys]
  /\ imread = [im \in Images |-> "same"]
  /\ ntok = [n \in Lines |-> 1]
  /\ max_dimensions \in Caps
  /\ batchsize \in BatchSizes
  /\ shuffle \in BOOLEAN
  /\ keep_smaller_batches \in BOOLEAN
  /\ pad = FALSE
  /\ test = FALSE
  /\ Constructed

\* ---- operations --------------------------------------------------------
\* iter(ds), called by h: the dataset's user ("ds") or the holder of a handle
__iter__(h) ==
  /\ i' = ResetCursor(i)
  /\ IF IterRaises(data, batchsize)
     THEN /\ pairs' = <<>>
          /\ size' = size
          /\ planned' = FALSE
          /\ call' = Called("iter", h, "ValueError", <<>>)
     ELSE /\ pairs' \in Plans(data, batchsize, shuffle, keep_smaller_batches)
          /\ size' = PlanSize(size, pairs')
          /\ planned' = TRUE
          /\ call' = Called("iter", h, "none", <<>>)
  /\ delivered' = <<>>
  /\ got' = IF h \in Handles THEN [got EXCEPT ![h] = 0] ELSE got
  /\ transform' = Transform(test)
  /\ out' = NoOutput
  /\ UNCHANGED <<disk, build, data, batchsize, shuffle, keep_smaller_batches,
                 max_dimensions, pad, test>>

\* Stop rewinding the cursor as it raises, so that the next call starts over
StopRewinds(h) ==
  /\ call' = Called("next", h, "StopIteration", <<>>)
  /\ i' = 0
  /\ out' = NoOutput
  /\ UNCHANGED <<disk, build, data, batchsize, shuffle, keep_smaller_batches,
                 max_dimensions, pad, test, transform, size, pairs, delivered,
                 planned, got>>

\* raise StopIteration (line 132)
Stop(h) ==
  /\ call' = Called("next", h, "StopIteration", <<>>)
  /\ out' = NoOutput
  /\ UNCHANGED <<disk, build, data, batchsize, shuffle, keep_smaller_batches,
                 max_dimensions, pad, test, transform, size, i, pairs, delivered,
                 planned, got>>

\* lines 133-134 from the cursor c: self.i += 1, then self.pairs[self.i-1] is
\* loaded and returned; an index past the end of self.pairs raises IndexError
Deliver(h, c) ==
  /\ i' = c + 1
  /\ IF c + 1 <= Len(pairs)
     THEN /\ out' = prepare_data(pairs[c + 1], imsize, imread, ntok, transform,
                                 pad, max_dimensions)
          /\ call' = Called("next", h,
                            IF out'.kind \in {"tensors", "None"} THEN "none" ELSE out'.kind,
                            pairs[c + 1])
          /\ delivered' = Append(delivered, pairs[c + 1])
          /\ got' = IF h \in Handles /\ got[h] >= 0
                    THEN [got EXCEPT ![h] = Min(@ + 1, NumImages + 1)]
                    ELSE got
     ELSE /\ call' = Called("next", h, "IndexError", <<>>)
          /\ out' = NoOutput
          /\ UNCHANGED <<delivered, got>>
  /\ UNCHANGED <<disk, build, data, batchsize, shuffle, keep_smaller_batches,
                 max_dimensions, pad, test, transform, size, pairs, planned>>


\* next(it), called by h
__next__(h) == IF AtEnd(i, size) THEN Stop(h) ELSE Deliver(h, i)

\* ds.update(**kwargs) with the option keys `keys` present
update(keys, vb, vs, vp, vk, vt, vm) ==
  LET nb == IF "batchsize" \in keys THEN vb ELSE batchsize
      nd == IF "max_dimensions" \in keys THEN Filter(data, vm) ELSE data
      gs == _get_size(nd, nb)
  IN /\ batchsize' = nb
     /\ shuffle' = IF "shuffle" \in keys THEN vs ELSE shuffle
     /\ pad' = IF "pad" \in keys THEN vp ELSE pad
     /\ keep_smaller_batches' =
          IF "keep_smaller_batches" \in keys THEN vk ELSE keep_smaller_batches
     /\ test' = IF "test" \in keys THEN vt ELSE test
     /\ max_dimensions' = IF "max_dimensions" \in keys THEN vm ELSE max_dimensions
     /\ data' = nd
     /\ out' = NoOutput
     /\ IF gs.raised # "none"
        THEN /\ size' = gs.size
             /\ planned' = FALSE
             /\ call' = Called("update", "update", gs.raised, <<>>)
             /\ UNCHANGED <<transform, i, pairs, delivered, got>>
        ELSE /\ i' = ResetCursor(i)
             /\ transform' = Transform(test')
             /\ pairs' \in Plans(nd, nb, shuffle', keep_smaller_batches')
             /\ size' = PlanSize(gs.size, pairs')
             /\ planned' = TRUE
             /\ call' = Called("update", "update", "none", <<>>)
             /\ delivered' = <<>>
             /\ got' = [h \in Handles |-> IF got[h] < 0 THEN got[h] ELSE 0]
     /\ UNCHANGED <<disk, build>>

\* the calls made: at most MaxKwargs keys; a key that is passed with the value
\* the attribute already has acts as the same key left out (line 197), so
\* those calls are not listed twice
UpdateAny ==
  \E keys \in {K \in SUBSET OptionKeys : Cardinality(K) <= MaxKwargs} :
    \E vb \in (IF "batchsize" \in keys THEN BatchSizes \ {batchsize} ELSE {batchsize}),
       vs \in (IF "shuffle" \in keys THEN {~shuffle} ELSE {shuffle}),
       vk \in (IF "keep_smaller_batches" \in keys
               THEN {~keep_smaller_batches} ELSE {keep_smaller_batches}),
       vm \in (IF "max_dimensions" \in keys THEN Caps ELSE {max_dimensions}) :
      update(keys, vb, vs, pad, vk, test, vm)

\* one consumer, using the dataset object itself as the iterator
Next == __iter__("ds") \/ __next__("ds") \/ UpdateAny

Spec == Init /\ [][Next]_vars

\* two handles obtained from the same dataset, interleaving iter() and next()
NextShared == (\E h \in Handles : __iter__(h)) \/ (\E h \in Handles : __next__(h))

SpecShared == Init /\ [][NextShared]_vars

\* ---- __init__, image by image -------------------------------------------
\* the stems of the files: at most one file is not named after its line
StemChoices ==
  {st \in [Images -> Stems] : Cardinality({im \in Images : st[im] # indices[im]}) <= 1}

\* __init__ up to line 92: the arguments are stored, self.data is empty, the
\* scan has not begun; size, i and pairs are not set yet (written 0, 0, <<>>)
InitBuild ==
  /\ imsize \in [Images -> Keys]
  /\ stems \in StemChoices
  /\ imread = [im \in Images |-> "same"]
  /\ ntok = [n \in Lines |-> 1]
  /\ max_dimensions \in Caps
  /\ batchsize \in BatchSizes
  /\ shuffle = FALSE
  /\ keep_smaller_batches \in BOOLEAN
  /\ pad = FALSE
  /\ test = FALSE
  /\ transform = Transform(FALSE)
  /\ build = [status |-> "scanning", pos |-> 0, aborted |-> FALSE]
  /\ data = <<>>
  /\ size = 0
  /\ i = 0
  /\ pairs = <<>>
  /\ call = [op |-> "init", by |-> "init", raised |-> "none", ret |-> <<>>, from |-> "-"]
  /\ delivered = <<>>
  /\ planned = FALSE
  /\ out = NoOutput
  /\ got = [h \in Handles |-> 0 - 1]

\* one pass of the loop body (lines 96-98) for the next file; an IndexError
\* is not caught by line 99 and leaves __init__
ScanImage ==
  /\ build.status = "scanning"
  /\ build.pos < NumImages
  /\ LET im == build.pos + 1
         r  == ScanOne(data, imsize, max_dimensions, im, stems[im])
     IN /\ data' = r.data
        /\ build' = [build EXCEPT !.pos = im,
                                  !.status = IF r.raised = "none" THEN @ ELSE "raised"]
        /\ call' = [call EXCEPT !.raised = r.raised]
  /\ UNCHANGED <<disk, batchsize, shuffle, keep_smaller_batches, max_dimensions,
                 pad, test, transform, size, i, pairs, delivered, planned, out, got>>

\* lines 101-104 with d the mapping the scan left: self.data = dict(self.data),
\* self._get_size(), iter(self)
AfterScan(d, aborted) ==
  LET gs == _get_size(d, batchsize)
  IN /\ data' = d
     /\ IF gs.raised # "none"
        THEN /\ build' = [build EXCEPT !.status = "raised", !.aborted = aborted]
             /\ size' = gs.size
             /\ call' = [call EXCEPT !.raised = gs.raised]
             /\ UNCHANGED <<transform, i, pairs, planned>>
        ELSE /\ build' = [build EXCEPT !.status = "done", !.aborted = aborted]
             /\ i' = ResetCursor(i)
             /\ transform' = Transform(test)
             /\ pairs' \in Plans(d, batchsize, shuffle, keep_smaller_batches)
             /\ size' = PlanSize(gs.size, pairs')
             /\ planned' = TRUE
             /\ UNCHANGED call
     /\ UNCHANGED <<disk, batchsize, shuffle, keep_smaller_batches, max_dimensions,
                    pad, test, delivered, out, got>>

\* an except clause that throws away what the scan had gathered
KeyboardInterruptDiscards ==
  /\ build.status = "scanning"
  /\ AfterScan(<<>>, TRUE)

\* KeyboardInterrupt between two files of the scan, or after the last:
\* except KeyboardInterrupt: pass (lines 99-100), then the rest of __init__
KeyboardInterrupt ==
  /\ build.status = "scanning"
  /\ AfterScan(data, TRUE)

\* the loop ends after the last file
ScanEnds ==
  /\ build.status = "scanning"
  /\ build.pos = NumImages
  /\ AfterScan(data, FALSE)

\* the object exists for its caller once __init__ has returned
NextBuild ==
  \/ ScanImage
  \/ KeyboardInterrupt
  \/ ScanEnds
  \/ (build.status = "done" /\ __next__("ds"))

SpecBuild == InitBuild /\ [][NextBuild]_vars

\* ---- loading batches ----------------------------------------------------
\* the sizes of the files of a dataset that is loaded from: a tall image and
\* a wide one
LoadKeys == {<<1, 2>>, <<2, 1>>}

\* a constructed dataset whose files decode, fail to decode or were replaced,
\* and whose lines have 0..MaxTokens tokens; every image fits the cap
InitLoad ==
  /\ imsize \in [Images -> LoadKeys]
  /\ imread \in [Images -> Reads]
  /\ ntok \in [Lines -> 0..MaxTokens]
  /\ max_dimensions = <<2, 2>>
  /\ batchsize \in 1..MaxBatch
  /\ shuffle = FALSE
  /\ keep_smaller_batches = TRUE
  /\ pad \in BOOLEAN
  /\ test = FALSE
  /\ Constructed

NextLoad == __iter__("ds") \/ __next__("ds")

SpecLoad == InitLoad /\ [][NextLoad]_vars

\* ---- update with any keyword -------------------------------------------
\* the keys of kwargs: the six that update reads, and one that it does not
AllKeys == OptionKeys \cup {"pad", "test", "unrecognized"}

\* a constructed dataset with pad and test as passed to __init__; the first
\* image is tall, the others are wide
InitOptions ==
  /\ imsize = [im \in Images |-> IF im = 1 THEN <<1, 2>> ELSE <<2, 1>>]
  /\ imread = [im \in Images |-> "same"]
  /\ ntok = [n \in Lines |-> 1]
  /\ max_dimensions \in Caps
  /\ batchsize \in BatchSizes
  /\ shuffle \in BOOLEAN
  /\ keep_smaller_batches \in BOOLEAN
  /\ pad \in BOOLEAN
  /\ test \in BOOLEAN
  /\ Constructed

\* the calls made: at most MaxKwargs keys of AllKeys, a recognized key only
\* with a value the attribute does not have yet
UpdateAll ==
  \E keys \in {K \in SUBSET AllKeys : Cardinality(K) <= MaxKwargs} :
    \E vb \in (IF "batchsize" \in keys THEN BatchSizes \ {batchsize} ELSE {batchsize}),
       vs \in (IF "shuffle" \in keys THEN {~shuffle} ELSE {shuffle}),
       vp \in (IF "pad" \in keys THEN {~pad} ELSE {pad}),
       vk \in (IF "keep_smaller_batches" \in keys
               THEN {~keep_smaller_batches} ELSE {keep_smaller_batches}),
       vt \in (IF "test" \in keys THEN {~test} ELSE {test}),
       vm \in (IF "max_dimensions" \in keys THEN Caps ELSE {max_dimensions}) :
      update(keys, vb, vs, vp, vk, vt, vm)

NextOptions == __iter__("ds") \/ __next__("ds") \/ UpdateAll

SpecOptions == InitOptions /\ [][NextOptions]_vars

\* ---- properties -------------------------------------------------------
\* the dimensions of the image of a sample
KeyOf(s) == imsize[s[2]]

\* the positions of the plan whose batch is drawn from bucket b
BatchesOf(b) == {j \in 1..Len(pairs) : Range(pairs[j]) \subseteq Range(b.v)}

Completed == call.raised = "none"

\* C1: in every state, whatever shuffle, batchsize and keep_smaller_batches
\* are, all samples of a batch of the plan have the same (width, height), and
\* a plan that __iter__ completed draws each batch from one bucket of self.data
C1_OneBucketPerBatch ==
  /\ \A j \in 1..Len(pairs) : \A s, t \in Range(pairs[j]) : KeyOf(s) = KeyOf(t)
  /\ planned => \A j \in 1..Len(pairs) : \E b \in Range(data) : Range(pairs[j]) \subseteq Range(b.v)

\* a shuffled plan over two buckets, one of them giving a batch of two
C1_Witness ==
  /\ call.op = "update" /\ Completed
  /\ shuffle /\ Len(data) >= 2
  /\ \E j \in 1..Len(pairs) : Len(pairs[j]) = 2

\* C2: with keep_smaller_batches false, every batch of a plan that __iter__
\* completed (called directly, by __init__ or by update) has exactly batchsize
\* samples, and a bucket of n samples gives floor(n / batchsize) batches: a
\* short final chunk or a bucket smaller than batchsize gives none
C2_FullBatchesOnly ==
  (planned /\ ~keep_smaller_batches) =>
     /\ \A j \in 1..Len(pairs) : Len(pairs[j]) = batchsize
     /\ batchsize > 0 =>
          \A b \in Range(data) : Cardinality(BatchesOf(b)) = Len(b.v) \div batchsize

\* batchsize 2, a bucket of three: one batch, the third sample dropped
C2_Witness ==
  /\ call.op = "iter" /\ Completed
  /\ ~keep_smaller_batches /\ batchsize = 2
  /\ \E b \in Range(data) : Len(b.v) = 3
  /\ Len(pairs) = 1

\* the sum over the buckets of ceil(n / bs), for bs > 0
RECURSIVE SumCeil(_, _)
SumCeil(d, bs) ==
  IF d = <<>> THEN 0 ELSE ((Len(Head(d).v) + bs - 1) \div bs) + SumCeil(Tail(d), bs)

\* C3 as claimed: after construction and after every __iter__ and update that
\* returns, len(Dataset) is the sum over the buckets of floor(n / batchsize),
\* also when keep_smaller_batches is true (stated for positive batch sizes)
C3_SizeIsFloorSum ==
  (call.op \in {"init", "iter", "update"} /\ Completed /\ batchsize > 0) =>
     size = SumDiv(data, batchsize)

\* C3 as amended: after construction and after every __iter__ and update that
\* returns, and until the next update, len(Dataset) is the number of batches of
\* the plan: the floor sum when keep_smaller_batches is false, the ceiling sum
\* (kept remainder batches counted) when it is true, 0 for a batch size <= 0
C3_SizeIsPlanLength ==
  planned =>
     /\ size = Len(pairs)
     /\ batchsize > 0 =>
          size = IF keep_smaller_batches THEN SumCeil(data, batchsize)
                 ELSE SumDiv(data, batchsize)
     /\ batchsize <= 0 => size = 0

\* buckets of sizes 2 and 1, batchsize 2, remainders kept: 2 batches, size 2
C3_Witness ==
  /\ call.op \in {"init", "iter", "update"} /\ Completed
  /\ keep_smaller_batches /\ batchsize = 2
  /\ Len(data) = 2
  /\ \E a, b \in Range(data) : Len(a.v) = 2 /\ Len(b.v) = 1
  /\ Len(pairs) = 2 /\ size = 2

\* the samples of a plan, batch after batch
RECURSIVE Flat(_)
Flat(p) == IF p = <<>> THEN <<>> ELSE Head(p) \o Flat(Tail(p))

\* f lists distinct rows of `rows`, in the order they have there
InOrder(f, rows) ==
  /\ Range(f) \subseteq Range(rows)
  /\ \A a, b \in 1..Len(f) :
       a < b => \E x, y \in 1..Len(rows) : x < y /\ rows[x] = f[a] /\ rows[y] = f[b]

\* C4: with shuffle false, an __iter__ that follows a completed __iter__ with
\* no update in between leaves the very same plan (same batches, same samples
\* in the same order), and that plan lists the samples in insertion order
\* inside each bucket, the buckets in the order self.data visits them
C4_Deterministic ==
  /\ []((planned /\ ~shuffle) => InOrder(Flat(pairs), AllRows(data)))
  /\ [][(planned /\ ~shuffle /\ call'.op = "iter" /\ call'.raised = "none")
          => pairs' = pairs]_vars

\* a second start after a full pass over two buckets, unshuffled
C4_Witness ==
  /\ call.op = "iter" /\ Completed /\ call.from = "Exhausted"
  /\ ~shuffle /\ Len(data) >= 2 /\ Len(pairs) >= 2

\* C5: a __next__ that follows a __next__ which raised StopIteration raises
\* StopIteration too and leaves the cursor and the plan as they were
C5_ExhaustionSticks ==
  [][(call.op = "next" /\ call.raised = "StopIteration" /\ call'.op = "next")
       => (call'.raised = "StopIteration" /\ i' = i /\ pairs' = pairs)]_vars

\* exhaustion signalled at the end of a plan of at least two batches
C5_Witness ==
  /\ call.op = "next" /\ call.raised = "StopIteration"
  /\ Len(pairs) >= 2 /\ i = Len(pairs)

\* C6: in a pass (since a completed __iter__, no update since), the batches
\* returned so far are the first i entries of the plan in plan order; a
\* __next__ at cursor i < len(plan) returns entry i (0-based) and moves the
\* cursor by one, a __next__ at cursor i = len(plan) raises StopIteration; so
\* the pass has returned the whole plan, kept remainders included, when
\* StopIteration is raised
C6_PassInPlanOrder ==
  /\ [](planned => (i <= Len(pairs) /\ delivered = SubSeq(pairs, 1, i)))
  /\ []((planned /\ call.op = "next" /\ call.raised = "StopIteration") => delivered = pairs)
  /\ [][(planned /\ call'.op = "next") =>
          IF i < Len(pairs)
          THEN call'.raised = "none" /\ call'.ret = pairs[i + 1] /\ i' = i + 1
          ELSE i = Len(pairs) /\ call'.raised = "StopIteration" /\ i' = i
               /\ delivered' = delivered]_vars

\* a full pass that returned a kept remainder batch
C6_Witness ==
  /\ planned /\ call.op = "next" /\ call.raised = "StopIteration"
  /\ keep_smaller_batches /\ batchsize = 2
  /\ Len(pairs) >= 2 /\ delivered = pairs
  /\ \E j \in 1..Len(pairs) : Len(pairs[j]) < batchsize

\* the number of samples of bucket b that the plan holds
Planned(b) == Cardinality(Range(Flat(pairs)) \cap Range(b.v))

\* the plan is one computed from the current buckets and configuration
FreshPlan ==
  /\ \A j \in 1..Len(pairs) : \E b \in Range(data) : Range(pairs[j]) \subseteq Range(b.v)
  /\ Cardinality(Range(Flat(pairs))) = Len(Flat(pairs))
  /\ \A j \in 1..Len(pairs) :
       Len(pairs[j]) = batchsize \/ (keep_smaller_batches /\ Len(pairs[j]) < batchsize)
  /\ batchsize > 0 =>
       \A b \in Range(data) :
         Planned(b) = IF keep_smaller_batches THEN Len(b.v)
                      ELSE (Len(b.v) \div batchsize) * batchsize
  /\ batchsize <= 0 => pairs = <<>>
  /\ ~shuffle => InOrder(Flat(pairs), AllRows(data))

\* C7: an __iter__ that returns, called in any iterator state, leaves the
\* cursor at 0, no batch returned yet, and a plan computed from the current
\* buckets and configuration with self.size its length; the __next__ after it
\* returns the first batch of that plan, or raises StopIteration when the
\* plan is empty
C7_StartResets ==
  /\ [][(call'.op = "iter" /\ call'.raised = "none")
          => (i' = 0 /\ delivered' = <<>> /\ size' = Len(pairs') /\ FreshPlan')]_vars
  /\ [][(call.op = "iter" /\ call.raised = "none" /\ call'.op = "next")
          => IF pairs = <<>> THEN call'.raised = "StopIteration" /\ i' = 0
             ELSE call'.raised = "none" /\ call'.ret = pairs[1] /\ i' = 1]_vars

\* a start in the middle of a pass
C7_Witness ==
  /\ call.op = "iter" /\ Completed /\ call.from = "Active"
  /\ i = 0 /\ Len(pairs) >= 2

\* the buckets of d whose key fits the cap md
Fitting(d, md) == SelectSeq(d, LAMBDA b : b.k[1] <= md[1] /\ b.k[2] <= md[2])

BucketKeys(d) == {d[j].k : j \in 1..Len(d)}

\* C8 as claimed: update leaves exactly the buckets held before whose key fits
\* the cap now configured (width <= W and height <= H), contents unchanged;
\* no step ever adds a bucket; and an update that returns leaves size and plan
\* computed from the surviving buckets
C8_UpdateKeepsFitting ==
  /\ [][call'.op = "update" => data' = Fitting(data, max_dimensions')]_vars
  /\ [][BucketKeys(data') \subseteq BucketKeys(data)]_vars
  /\ [][(call'.op = "update" /\ call'.raised = "none")
          => (size' = Len(pairs') /\ FreshPlan')]_vars

\* C9: in every state every bucket key is within the configured
\* max_dimensions in both coordinates, and every sample of a bucket is an
\* image whose own (width, height) is the bucket's key
C9_BucketsFitCap ==
  \A b \in Range(data) :
     /\ b.k[1] <= max_dimensions[1]
     /\ b.k[2] <= max_dimensions[2]
     /\ \A s \in Range(b.v) : KeyOf(s) = b.k

\* the cap is (2, 2) after an update, a (2, 1) image excluded under an earlier
\* narrower cap stays out, and other buckets are held
C9_Witness ==
  /\ call.op = "update" /\ Completed
  /\ max_dimensions = <<2, 2>> /\ data # <<>>
  /\ \E im \in Images : imsize[im] = <<2, 1>> /\ <<2, 1>> \notin BucketKeys(data)

\* C10 as claimed, for two handles both obtained by iter(): a handle that is
\* told StopIteration has received every batch of its plan since its own
\* iter(), and an iter() or next() by one handle leaves the cursor and the
\* plan of the other as they were
C10_IndependentIterators ==
  /\ [](\A h \in Handles :
         ((\A g \in Handles : got[g] >= 0)
            /\ call.op = "next" /\ call.by = h /\ call.raised = "StopIteration")
         => got[h] = Len(Plan(h)))
  /\ [][\A h \in Handles :
         ((\A g \in Handles : got[g] >= 0)
            /\ call'.op \in {"iter", "next"} /\ call'.by # h)
         => (Cursor(h)' = Cursor(h) /\ Plan(h)' = Plan(h))]_vars

\* C11 as claimed: an update call that sets a batch size of 0 or less (the
\* calls listed pass batchsize only with a new value) ends with an exception
\* and without a plan computed for that batch size
C11_NonPositiveBatchRejected ==
  [][(call'.op = "update" /\ batchsize' # batchsize /\ batchsize' <= 0)
       => (call'.raised # "none" /\ ~planned')]_vars

\* the stem of image im is the index of one of the lines of the file
ValidStem(im) == stems[im] \in Lines

\* the images that have a sample in a bucket
Bucketed == {s[2] : s \in Range(AllRows(data))}

\* C12 as claimed: once the scan has come to an image whose stem is negative
\* or not below the number of lines, __init__ has ended with an exception;
\* no such image is passed over or put in a bucket
C12_BadIndexFailsBuild ==
  \A im \in 1..build.pos : ~ValidStem(im) => (build.status = "raised" /\ im \notin Bucketed)

\* the images among the first n that pass the size test of the scan
Qualifying(n) == {im \in 1..n : Fits(imsize[im], max_dimensions)}

\* the samples of image im in the bucket keyed key
SamplesIn(key, im) ==
  {<<b, j>> \in Range(data) \X (1..NumImages) :
     b.k = key /\ j <= Len(b.v) /\ b.v[j][2] = im}

\* C13: a construction that a KeyboardInterrupt cut short at any point of the
\* scan ends as the construction over the files scanned until then: it fails
\* only where _get_size divides by a batch size of 0, and otherwise returns
\* an object whose buckets hold exactly the scanned images that fit, each
\* once and under its own size, with a plan computed from those buckets and
\* self.size its length
C13_AbortKeepsPartialIndex ==
  build.aborted =>
    /\ build.status \in {"done", "raised"}
    /\ build.status = "raised" => (batchsize = 0 /\ Qualifying(build.pos) # {})
    /\ Bucketed = Qualifying(build.pos)
    /\ \A im \in Bucketed :
         /\ Cardinality(SamplesIn(imsize[im], im)) = 1
         /\ \A key \in Keys \ {imsize[im]} : SamplesIn(key, im) = {}
    /\ build.status = "done" => (planned /\ FreshPlan /\ size = Len(pairs) /\ i = Len(delivered))

\* the scan was interrupted after the second of three images, both of which
\* fit; the object was built from them and has returned a batch
C13_Witness ==
  /\ build.aborted /\ build.status = "done" /\ build.pos = 2
  /\ Qualifying(2) = {1, 2} /\ Fits(imsize[3], max_dimensions)
  /\ call.op = "next" /\ Completed /\ call.ret # <<>>

\* the samples of a batch whose image cv2.imread cannot decode
Undecodable(batch) == {j \in 1..Len(batch) : imread[batch[j][2]] = "None"}

\* C14 as claimed: a __next__ that loads a batch with an image that cannot be
\* decoded raises nothing and advances the cursor by one, so that the next
\* calls are given the following entries of the plan; and the tensors it
\* returns have no row for that sample, neither in the images nor in the
\* targets
C14_UndecodableExcluded ==
  (call.op = "next" /\ call.ret # <<>> /\ Undecodable(call.ret) # {}) =>
    /\ call.raised = "none"
    /\ i = Len(delivered) /\ delivered = SubSeq(pairs, 1, i)
    /\ out.kind = "tensors" =>
         /\ \A j \in Undecodable(call.ret) : call.ret[j][2] \notin Range(out.images)
         /\ Len(out.images) = Len(call.ret) - Cardinality(Undecodable(call.ret))
         /\ Len(out.tok.input_ids) = Len(call.ret) - Cardinality(Undecodable(call.ret))

\* torch.cat has nothing to stack, or tensors of two sizes
StackFails(batch) ==
  LET ok == {j \in 1..Len(batch) : imread[batch[j][2]] # "None"}
  IN \/ ok = {}
     \/ \E a, b \in ok : (imread[batch[a][2]] = "same") # (imread[batch[b][2]] = "same")
     \/ \E a, b \in ok : imsize[batch[a][2]] # imsize[batch[b][2]]

\* C15: a __next__ whose batch cannot be stacked, for images of different
\* sizes or for want of any image, returns (None, None) and raises nothing;
\* the cursor has moved on by one as for any other batch, so the calls after
\* it are given the entries of the plan that follow, up to StopIteration
C15_FailedStackReturnsNone ==
  /\ (call.op = "next" /\ call.ret # <<>>) =>
       /\ call.raised = "none"
       /\ (out.kind = "None") = StackFails(call.ret)
       /\ out.kind \in {"None", "tensors"}
  /\ call.op = "next" => call.raised \in {"none", "StopIteration"}
  /\ i = Len(delivered) /\ delivered = SubSeq(pairs, 1, i)
  /\ (call.op = "next" /\ call.raised = "StopIteration") => delivered = pairs

\* the first batch held an image of another size than its neighbour's and
\* came back as (None, None); the next call returned the tensors of the
\* second batch
C15_Witness ==
  /\ Len(delivered) = 2 /\ call.op = "next" /\ out.kind = "tensors"
  /\ StackFails(delivered[1])
  /\ \A j \in 1..Len(delivered[1]) : imread[delivered[1][j][2]] # "None"

\* the number of tokens of the target of sample j of a batch
TokCount(batch, j) == IF batch[j][1] \in Lines THEN ntok[batch[j][1]] ELSE 0

\* the longest target of a batch
Longest(batch) ==
  CHOOSE n \in 0..MaxTokens :
    /\ \E j \in 1..Len(batch) : TokCount(batch, j) = n
    /\ \A j \in 1..Len(batch) : TokCount(batch, j) <= n

\* C16: in the tensors a __next__ returns, row j of input_ids is 1, the ids
\* of the tokens of target j, 2, then 0 up to the width of the longest target
\* of this batch plus 2: a 0 stands only behind the row's own 2, and a longest
\* row has none; row j of attention_mask is 1 over the markers and the tokens
\* and 0 behind them
C16_RowsPaddedPerBatch ==
  out.kind = "tensors" =>
    LET batch == call.ret
        ids   == out.tok.input_ids
        mask  == out.tok.attention_mask
        w     == Longest(batch) + 2
    IN /\ Len(ids) = Len(batch) /\ Len(mask) = Len(batch)
       /\ \A j \in 1..Len(batch) :
            LET n == TokCount(batch, j)
            IN /\ Len(ids[j]) = w /\ Len(mask[j]) = w
               /\ ids[j][1] = 1 /\ ids[j][n + 2] = 2
               /\ \A k \in 1..n : ids[j][k + 1] = 3 + batch[j][1]
               /\ \A k \in 1..w : (ids[j][k] = 0) = (k > n + 2)
               /\ \A k \in 1..w : mask[j][k] = IF k > n + 2 THEN 0 ELSE 1
       /\ \E j \in 1..Len(batch) : \A k \in 1..w : ids[j][k] # 0

\* a batch of two targets of different lengths was returned, one row padded,
\* while another batch of the plan holds a longer target than both
C16_Witness ==
  /\ out.kind = "tensors" /\ Len(call.ret) = 2
  /\ TokCount(call.ret, 1) # TokCount(call.ret, 2)
  /\ \E b \in Range(pairs) : Longest(b) > Longest(call.ret)

\* C18 as claimed: the tensors a __next__ returns have as many image rows as
\* target rows, and image row j is the image of the sample whose target is
\* row j, which is sample j of the batch
C18_RowsAligned ==
  out.kind = "tensors" =>
    /\ Len(out.images) = Len(out.tok.input_ids)
    /\ \A j \in 1..Len(out.images) : out.images[j] = call.ret[j][2]

\* the six options and the bucket mapping
config == <<batchsize, shuffle, pad, keep_smaller_batches, test, max_dimensions, data>>

\* C17 as claimed: an update called with nothing but a key it does not
\* recognize raises nothing and leaves the six options and the buckets as
\* they were
C17_UnrecognizedIgnored ==
  [][update({"unrecognized"}, batchsize, shuffle, pad, keep_smaller_batches,
            test, max_dimensions)
       => (call'.raised = "none" /\ UNCHANGED config)]_vars

\* C19 as claimed: an update that ends with an exception leaves the options,
\* the buckets, self.size, the plan and the cursor as they were before the
\* call
C19_FailedUpdateChangesNothing ==
  [][(call'.op = "update" /\ call'.raised # "none")
       => UNCHANGED <<config, size, pairs, i>>]_vars

\* floor(n / b) * b as Python computes it, for b # 0
FloorMultiple(n, b) == FloorDiv(n, b) * b

\* C20 as claimed: in a plan that __iter__ or update completed no sample
\* occurs twice; with keep_smaller_batches the batches hold every sample of
\* every bucket, a bucket of one sample as a batch of length 1; without it
\* the plan holds floor(n / batchsize) * batchsize samples of a bucket of n
C20_PlanPartitions ==
  planned =>
    /\ Cardinality(Range(Flat(pairs))) = Len(Flat(pairs))
    /\ keep_smaller_batches =>
         /\ Range(Flat(pairs)) = Range(AllRows(data))
         /\ \A b \in Range(data) : Len(b.v) = 1 => \E j \in 1..Len(pairs) : pairs[j] = b.v
    /\ ~keep_smaller_batches =>
         \A b \in Range(data) :
           batchsize # 0 => Planned(b) = FloorMultiple(Len(b.v), batchsize)

\* C20 for the batch sizes above 0: the statement of C20 holds in every state
C20_PlanPartitionsPositive == batchsize > 0 => C20_PlanPartitions

====
